---- MODULE Spec2Model ----
(***************************************************************************)
(* Model of paddle/fluid/platform/device_context.cc:                       *)
(*   - DeviceContextPool: the registry from Place to DeviceContext;        *)
(*   - CudnnHolder / CUDADeviceContext: the workspace buffer, its mutex,   *)
(*     the stream and the teardown of the accelerator context;             *)
(*   - MKLDNNDeviceContext: the thread-scoped blob cache.                  *)
(* Each part has its own specification (SpecPool, SpecCuda, SpecBlob); the *)
(* variables of the other parts keep their initial values in it.           *)
(***************************************************************************)
EXTENDS Integers, Sequences, FiniteSets, TLC

\* ------------------------------------------------------------- bounds
\* Highest accelerator device index (devices 0..MaxDevice).
MaxDevice == 1
\* Longest list of Places handed to the DeviceContextPool constructor.
MaxPlaces == 3
\* Number of caller threads using one accelerator context.
NumThreads == 2
\* Largest workspace size a caller requests (sizes 1..MaxLen).
MaxLen == 3
\* Most work items pending on the stream at one time.
MaxQueue == 2
\* Most callbacks pending in the callback queue at one time.
MaxCallbacks == 1
\* Highest explicit thread id handed to set_cur_thread_id (ids 0..MaxTid).
MaxTid == 1

VARIABLES
  \* --- build configuration
  build_cuda,        \* PADDLE_WITH_CUDA
  build_mkldnn,      \* PADDLE_WITH_MKLDNN
  \* --- DeviceContextPool
  pool_state,        \* "none" | "ok" | "throw" (constructor threw)
  places,            \* the constructor's argument
  cuda_faults,       \* devices whose CUDADeviceContext constructor throws
  device_contexts_,  \* DeviceContextPool::device_contexts_
  constructed,       \* Places whose context constructor was entered
  last_get,          \* outcome of the last Get
  all_device_ctx,    \* result of the last GetAllDeviceContexts
  \* --- one CUDADeviceContext and its CudnnHolder
  has_cudnn,         \* dynload::HasCUDNN()
  ctx_state,         \* "Ready" | "Dtor" | "Members" | "Destroyed" | "Terminated"
  dtor_i,            \* index in DtorSteps of the destructor's next statement
  members_left,      \* owning members not yet destroyed
  td_log,            \* the driver and library calls teardown has made, in order
  workspace_,        \* CudnnHolder::workspace_ (0: nullptr)
  workspace_len_,    \* CudnnHolder::workspace_len_
  mtx_,              \* CudnnHolder::mtx_: the thread holding it (0: free)
  pc,                \* where each thread is in RunFunc
  req,               \* required_workspace_len of each thread's call
  op_buf,            \* the pointer each thread's cudnn_func was called with
  synced,            \* the thread's call has completed cudaStreamSynchronize
  heap,              \* the allocator: live address -> size
  freed,             \* addresses passed to Free
  double_freed,      \* addresses passed to Free while not allocated
  stream_q,          \* work pending on the stream, oldest first: the buffer
                     \* each item uses (0: none of the workspace)
  cb_pending,        \* callbacks pending in the callback queue
  max_ok_req,        \* largest size requested by a call that returned
  threw,             \* some RunFunc call ended in a throw
  \* --- one MKLDNNDeviceContext
  cur_thread_id,     \* the thread_local cur_thread_id of each thread
  p_blobmap_,        \* thread id -> (name -> data)
  p_mutex_,          \* the thread holding *p_mutex_ (0: free)
  bpc,               \* where each thread is in SetBlob / GetBlob
  b_tid,             \* the call's local tid
  b_name,            \* the call's name argument
  b_data,            \* SetBlob's data argument, GetBlob's return value
  last_set,          \* per (thread id, name): data of the last SetBlob completed
  did_overwrite,     \* some SetBlob replaced data by other data
  \* --- callers of CUDADeviceContext::Wait
  wpc,               \* where each thread is in Wait: "idle" | "call" |
                     \* "returned" | "fatal"
  w_i,               \* index in WaitSteps of the call's next statement
  w_before,          \* work enqueued before the thread's call, still pending
  last_error,        \* the device has an error to report
  \* --- one CUDADeviceContext under construction
  ct_state,          \* "Uninitialized" | "Ctor" | "Ready" | "Failed"
  ct_device,         \* place_.device
  ct_i,              \* index in CtorSteps of the constructor's next statement
  ct_log,            \* the driver and library calls the constructor has made
  ct_meta,           \* the cached device metadata (0: not yet queried)
  ct_line,           \* what LOG(INFO) printed
  \* --- one EigenCudaStreamDevice
  scratch_,          \* EigenCudaStreamDevice::scratch_ (0: NULL)
  semaphore_,        \* EigenCudaStreamDevice::semaphore_
  epc,               \* where each thread is in scratchpad() / semaphore()
  e_op,              \* the accessor each thread called
  sp_allocs,         \* number of scratch buffers obtained from allocate
  sp_returned,       \* the addresses scratchpad() calls have returned
  sem_returned       \* the addresses semaphore() calls have returned

pool_vars == <<build_cuda, build_mkldnn, pool_state, places, cuda_faults,
               device_contexts_, constructed, last_get, all_device_ctx>>

cuda_vars == <<has_cudnn, ctx_state, dtor_i, members_left, td_log, workspace_,
               workspace_len_, mtx_, pc, req, op_buf, synced, heap, freed,
               double_freed, stream_q, cb_pending, max_ok_req, threw>>

blob_vars == <<cur_thread_id, p_blobmap_, p_mutex_, bpc, b_tid, b_name, b_data,
               last_set, did_overwrite>>

wait_vars == <<wpc, w_i, w_before, last_error>>

ctor_vars == <<ct_state, ct_device, ct_i, ct_log, ct_meta, ct_line>>

eigen_vars == <<scratch_, semaphore_, epc, e_op, sp_allocs, sp_returned,
                sem_returned>>

vars == <<pool_vars, cuda_vars, blob_vars, wait_vars, ctor_vars, eigen_vars>>

\* ------------------------------------------------------------- Place
Devices == 0..MaxDevice

CPUPlace == [kind |-> "CPU", device |-> 0]

CUDAPinnedPlace == [kind |-> "PINNED", device |-> 0]

CUDAPlace(d) == [kind |-> "GPU", device |-> d]

AllPlaces == {CPUPlace, CUDAPinnedPlace} \cup {CUDAPlace(d) : d \in Devices}

is_cpu_place(p) == p.kind = "CPU"

is_gpu_place(p) == p.kind = "GPU"

is_cuda_pinned_place(p) == p.kind = "PINNED"

KindRank(p) == CASE p.kind = "CPU" -> 0 [] p.kind = "PINNED" -> 1 [] OTHER -> 2

\* Place's total order, by (kind, device index).
PlaceLess(a, b) ==
  \/ KindRank(a) < KindRank(b)
  \/ KindRank(a) = KindRank(b) /\ a.device < b.device

\* std::set<Place>::insert on the set kept as its sorted sequence: an element
\* equivalent to one already present (neither less than the other) is dropped.
RECURSIVE SetInsert(_, _)
SetInsert(s, p) ==
  IF s = <<>> THEN <<p>>
  ELSE IF PlaceLess(p, Head(s)) THEN <<p>> \o s
  ELSE IF PlaceLess(Head(s), p) THEN <<Head(s)>> \o SetInsert(Tail(s), p)
  ELSE s

\* for (auto& p : places) set.insert(p);
RECURSIVE InsertAll(_, _)
InsertAll(s, ps) ==
  IF ps = <<>> THEN s ELSE InsertAll(SetInsert(s, Head(ps)), Tail(ps))

\* ------------------------------------------------------------- contexts
NullCtx == [variant |-> "null", place_ |-> CPUPlace]

CPUDeviceContext(place) == [variant |-> "CPUDeviceContext", place_ |-> place]

MKLDNNDeviceContext(place) == [variant |-> "MKLDNNDeviceContext", place_ |-> place]

CUDADeviceContext_new(place) == [variant |-> "CUDADeviceContext", place_ |-> place]

CUDAPinnedDeviceContext(place) ==
  [variant |-> "CUDAPinnedDeviceContext", place_ |-> place]

GetPlace(ctx) == ctx.place_

\* unordered_map::emplace: no effect when the key is present.
Emplace(m, p, ctx) == IF p \in DOMAIN m THEN m ELSE m @@ (p :> ctx)

EmptyMap == [p \in {} |-> NullCtx]

\* NewContext with the accelerator context always built for device 0.
NewContext_device0(p, cuda, mkldnn, faults) ==
  IF is_cpu_place(p)
  THEN [ok |-> TRUE, entered |-> TRUE,
        ctx |-> IF mkldnn THEN MKLDNNDeviceContext(p) ELSE CPUDeviceContext(p)]
  ELSE IF is_gpu_place(p)
  THEN IF cuda
       THEN [ok |-> p.device \notin faults, entered |-> TRUE,
             ctx |-> CUDADeviceContext_new(CUDAPlace(0))]
       ELSE [ok |-> FALSE, entered |-> FALSE, ctx |-> NullCtx]
  ELSE IF cuda
       THEN [ok |-> TRUE, entered |-> TRUE, ctx |-> CUDAPinnedDeviceContext(p)]
       ELSE [ok |-> FALSE, entered |-> FALSE, ctx |-> NullCtx]

\* One iteration of the constructor's loop over the set: the outcome of
\* building the context of Place p under the build's flags.
\*   [ok |-> the iteration did not throw, entered |-> a context constructor
\*    ran, ctx |-> the context built]
NewContext(p, cuda, mkldnn, faults) ==
  IF is_cpu_place(p)
  THEN [ok |-> TRUE, entered |-> TRUE,
        ctx |-> IF mkldnn THEN MKLDNNDeviceContext(p) ELSE CPUDeviceContext(p)]
  ELSE IF is_gpu_place(p)
  THEN IF cuda
       THEN [ok |-> p.device \notin faults, entered |-> TRUE,
             ctx |-> CUDADeviceContext_new(p)]
       ELSE [ok |-> FALSE, entered |-> FALSE, ctx |-> NullCtx]
  ELSE IF cuda
       THEN [ok |-> TRUE, entered |-> TRUE, ctx |-> CUDAPinnedDeviceContext(p)]
       ELSE [ok |-> FALSE, entered |-> FALSE, ctx |-> NullCtx]

\* for (auto& p : set) { ... emplace ... }: stops at the first throw.
RECURSIVE EmplaceLoop(_, _, _, _, _, _)
EmplaceLoop(set, m, entered, cuda, mkldnn, faults) ==
  IF set = <<>> THEN [ok |-> TRUE, map |-> m, entered |-> entered]
  ELSE LET r == NewContext(Head(set), cuda, mkldnn, faults)
           e == IF r.entered THEN entered \cup {Head(set)} ELSE entered
       IN IF r.ok
          THEN EmplaceLoop(Tail(set), Emplace(m, Head(set), r.ctx), e,
                           cuda, mkldnn, faults)
          ELSE [ok |-> FALSE, map |-> EmptyMap, entered |-> e]

\* EnforceNonEmpty with the size check passing for every list.
EnforceNonEmpty_ge(ps) == Len(ps) >= 0

\* PADDLE_ENFORCE_GT(places.size(), 0)
EnforceNonEmpty(ps) == Len(ps) > 0

\* DeviceContextPool::DeviceContextPool(places)
PoolConstruct(ps, cuda, mkldnn, faults) ==
  IF ~EnforceNonEmpty(ps)
  THEN [ok |-> FALSE, map |-> EmptyMap, entered |-> {}]
  ELSE EmplaceLoop(InsertAll(<<>>, ps), EmptyMap, {}, cuda, mkldnn, faults)

\* Get that builds a host context for a Place the map does not hold.
Get_ondemand(m, place) ==
  IF place \notin DOMAIN m
  THEN [status |-> "ok", ctx |-> CPUDeviceContext(place),
        map |-> m @@ (place :> CPUDeviceContext(place))]
  ELSE [status |-> "ok", ctx |-> m[place], map |-> m]

\* DeviceContextPool::Get(place): the returned context (or the throw) and the
\* map after the call.
Get(m, place) ==
  IF place \notin DOMAIN m
  THEN [status |-> "throw", ctx |-> NullCtx, map |-> m]
  ELSE [status |-> "ok", ctx |-> m[place], map |-> m]

\* GetAllDeviceContexts with the vector sized (not reserved) before the
\* contexts are appended: size() null entries come first.
GetAllDeviceContexts_resized(m) ==
  [c \in {m[p] : p \in DOMAIN m} \cup {NullCtx} |->
     IF c = NullCtx THEN Cardinality(DOMAIN m)
     ELSE Cardinality({p \in DOMAIN m : m[p] = c})]

\* DeviceContextPool::GetAllDeviceContexts: the returned vector, up to the
\* map's (unspecified) iteration order, as the number of times each context
\* occurs in it.
GetAllDeviceContexts(m) ==
  [c \in {m[p] : p \in DOMAIN m} |-> Cardinality({p \in DOMAIN m : m[p] = c})]

\* ------------------------------------------------------------- accelerator context
Threads == 1..NumThreads

NoThread == 0

Null == 0

EmptyHeap == [a \in {} |-> 0]

\* The CudnnHolder constructor: workspace_(nullptr), workspace_len_(0); the
\* context is Ready, no caller is inside RunFunc.
InitCudaVars ==
  /\ ctx_state = "Ready"
  /\ dtor_i = 1
  /\ members_left = {}
  /\ td_log = <<>>
  /\ workspace_ = Null
  /\ workspace_len_ = 0
  /\ mtx_ = NoThread
  /\ pc = [t \in Threads |-> "idle"]
  /\ req = [t \in Threads |-> 0]
  /\ op_buf = [t \in Threads |-> Null]
  /\ synced = [t \in Threads |-> FALSE]
  /\ heap = EmptyHeap
  /\ freed = {}
  /\ double_freed = {}
  /\ stream_q = <<>>
  /\ cb_pending = 0
  /\ max_ok_req = 0
  /\ threw = FALSE

\* ------------------------------------------------------------- blob cache state
Tids == 0..MaxTid

BlobNames == {"k", "k2"}

BlobData == {"v", "v2"}

NoData == "nullptr"

NoName == "none"

EmptyRow == [n \in {} |-> NoData]

EmptyBlobMap == [i \in {} |-> EmptyRow]

\* The MKLDNNDeviceContext constructor: an empty BlobMap and a free mutex;
\* cur_thread_id is 0 in every thread.
InitBlobVars ==
  /\ cur_thread_id = [t \in Threads |-> 0]
  /\ p_blobmap_ = EmptyBlobMap
  /\ p_mutex_ = NoThread
  /\ bpc = [t \in Threads |-> "idle"]
  /\ b_tid = [t \in Threads |-> 0]
  /\ b_name = [t \in Threads |-> NoName]
  /\ b_data = [t \in Threads |-> NoData]
  /\ last_set = [i \in Tids |-> [n \in BlobNames |-> NoData]]
  /\ did_overwrite = FALSE

\* ------------------------------------------------------------- pool actions
NoGet == [place |-> CPUPlace, status |-> "none", ctx |-> NullCtx]

EmptyAll == [c \in {} |-> 0]

PlaceLists == UNION {[1..n -> AllPlaces] : n \in 0..MaxPlaces}

\* ------------------------------------------------------------- Wait state
\* No caller is inside Wait and the device has reported no error.
InitWaitVars ==
  /\ wpc = [t \in Threads |-> "idle"]
  /\ w_i = [t \in Threads |-> 1]
  /\ w_before = [t \in Threads |-> 0]
  /\ last_error = FALSE

\* ------------------------------------------------------------- constructor state
NoMeta ==
  [compute_capability_ |-> 0, multi_process_ |-> 0, max_threads_per_mp_ |-> 0,
   driver_version_ |-> 0, runtime_version_ |-> 0]

\* No CUDADeviceContext constructor has been entered.
InitCtorVars ==
  /\ ct_state = "Uninitialized"
  /\ ct_device = 0
  /\ ct_i = 1
  /\ ct_log = <<>>
  /\ ct_meta = NoMeta
  /\ ct_line = <<>>

\* ------------------------------------------------------------- adapter state
\* The address kCudaScratchSize bytes past the start of the scratch buffer at
\* base (base 0: NULL).
SemaphoreOf(base) == [base |-> base, offset |-> "kCudaScratchSize"]

NoSemaphore == [base |-> Null, offset |-> "NULL"]

\* EigenCudaStreamDevice(): scratch_(nullptr), semaphore_(nullptr); no caller
\* is inside an accessor.
InitEigenVars ==
  /\ scratch_ = Null
  /\ semaphore_ = NoSemaphore
  /\ epc = [t \in Threads |-> "idle"]
  /\ e_op = [t \in Threads |-> "none"]
  /\ sp_allocs = 0
  /\ sp_returned = {}
  /\ sem_returned = {}

InitPoolVars ==
  /\ pool_state = "none"
  /\ places = <<>>
  /\ cuda_faults = {}
  /\ device_contexts_ = EmptyMap
  /\ constructed = {}
  /\ last_get = NoGet
  /\ all_device_ctx = EmptyAll

InitPool ==
  /\ build_cuda \in BOOLEAN
  /\ build_mkldnn \in BOOLEAN
  /\ InitPoolVars
  /\ has_cudnn = TRUE
  /\ InitCudaVars
  /\ InitBlobVars
  /\ InitWaitVars
  /\ InitCtorVars
  /\ InitEigenVars

PoolCtor ==
  /\ pool_state = "none"
  /\ \E ps \in PlaceLists, faults \in SUBSET Devices :
       LET r == PoolConstruct(ps, build_cuda, build_mkldnn, faults)
       IN /\ places' = ps
          /\ cuda_faults' = faults
          /\ pool_state' = IF r.ok THEN "ok" ELSE "throw"
          /\ device_contexts_' = r.map
          /\ constructed' = r.entered
  /\ UNCHANGED <<build_cuda, build_mkldnn, last_get, all_device_ctx>>
  /\ UNCHANGED <<cuda_vars, blob_vars, wait_vars, ctor_vars, eigen_vars>>

PoolGet ==
  /\ pool_state = "ok"
  /\ \E p \in AllPlaces :
       LET r == Get(device_contexts_, p)
       IN /\ last_get' = [place |-> p, status |-> r.status, ctx |-> r.ctx]
          /\ device_contexts_' = r.map
  /\ UNCHANGED <<build_cuda, build_mkldnn, pool_state, places, cuda_faults,
                 constructed, all_device_ctx>>
  /\ UNCHANGED <<cuda_vars, blob_vars, wait_vars, ctor_vars, eigen_vars>>

PoolGetAll ==
  /\ pool_state = "ok"
  /\ all_device_ctx' = GetAllDeviceContexts(device_contexts_)
  /\ UNCHANGED <<build_cuda, build_mkldnn, pool_state, places, cuda_faults,
                 device_contexts_, constructed, last_get>>
  /\ UNCHANGED <<cuda_vars, blob_vars, wait_vars, ctor_vars, eigen_vars>>

NextPool == PoolCtor \/ PoolGet \/ PoolGetAll

SpecPool == InitPool /\ [][NextPool]_vars

\* ------------------------------------------------------------- pool claims
Dedup(ps) == {ps[i] : i \in DOMAIN ps}

\* The build supports the kind of Place p.
Supported(p) == is_cpu_place(p) \/ build_cuda

\* C1: for a non-empty list of Places of kinds the build supports (and no
\* device fault while a context is built) the constructor succeeds; the
\* registry it yields holds exactly one context per distinct Place of the
\* list, and Get(p) for each such Place returns a context whose GetPlace()
\* is p.
C1_OneContextPerPlace ==
  pool_state # "none" =>
    LET D == Dedup(places)
    IN /\ ( /\ places # <<>>
            /\ \A p \in D : Supported(p)
            /\ \A p \in D : is_gpu_place(p) => p.device \notin cuda_faults )
          => pool_state = "ok"
       /\ pool_state = "ok" =>
            /\ DOMAIN device_contexts_ = D
            /\ Cardinality(DOMAIN device_contexts_) = Cardinality(D)
            /\ Cardinality({device_contexts_[p] : p \in D}) = Cardinality(D)
            /\ \A p \in D : GetPlace(device_contexts_[p]) = p
            /\ (last_get.status # "none" /\ last_get.place \in D) =>
                 /\ last_get.status = "ok"
                 /\ last_get.ctx = device_contexts_[last_get.place]
                 /\ GetPlace(last_get.ctx) = last_get.place

\* A registry built from a list with a duplicate and two distinct Places,
\* one of them an accelerator, and a Get of the accelerator's context.
C1_Witness ==
  /\ pool_state = "ok"
  /\ Len(places) = 3
  /\ Cardinality(Dedup(places)) = 2
  /\ last_get.status = "ok"
  /\ is_gpu_place(last_get.place)
  /\ last_get.place.device = MaxDevice

\* C2: the constructor over an empty list throws before any context
\* constructor is entered, and no registry holds zero contexts.
C2_EmptyListFails ==
  /\ (pool_state # "none" /\ places = <<>>) =>
        /\ pool_state = "throw"
        /\ constructed = {}
        /\ device_contexts_ = EmptyMap
  /\ pool_state = "ok" => DOMAIN device_contexts_ # {}

C2_Witness == pool_state = "throw" /\ places = <<>>

\* C3: Get of a Place that was not in the constructor's list throws, returns
\* no context, and leaves the registry's map as it was.
C3_GetUnknownThrows ==
  [][ (pool_state = "ok" /\ last_get' # last_get) =>
        /\ device_contexts_' = device_contexts_
        /\ last_get'.place \notin Dedup(places) =>
             /\ last_get'.status = "throw"
             /\ last_get'.ctx = NullCtx ]_vars

C3_Witness ==
  /\ pool_state = "ok"
  /\ last_get.status = "throw"
  /\ last_get.place \notin Dedup(places)

\* C13: once the constructor has succeeded the map is the one the constructor
\* built, whatever Get and GetAllDeviceContexts calls followed, and the vector
\* GetAllDeviceContexts returned holds, for each registered Place, exactly one
\* entry, the Place's context, and nothing else.
C13_RegistryFixed ==
  pool_state = "ok" =>
    /\ device_contexts_ =
         PoolConstruct(places, build_cuda, build_mkldnn, cuda_faults).map
    /\ all_device_ctx # EmptyAll =>
         /\ \A p \in DOMAIN device_contexts_ :
              /\ device_contexts_[p] \in DOMAIN all_device_ctx
              /\ all_device_ctx[device_contexts_[p]] = 1
         /\ \A c \in DOMAIN all_device_ctx :
              \E p \in DOMAIN device_contexts_ : c = device_contexts_[p]

\* GetAllDeviceContexts has returned for a registry of two Places or more, and
\* the last Get failed.
C13_Witness ==
  /\ pool_state = "ok"
  /\ Cardinality(DOMAIN device_contexts_) >= 2
  /\ all_device_ctx # EmptyAll
  /\ last_get.status = "throw"

\* ------------------------------------------------------------- CudnnHolder
\* Free addresses are never handed out again: each allocation gets a new one.
FreshAddr == Cardinality(DOMAIN heap \cup freed) + 1

Max(a, b) == IF a >= b THEN a ELSE b

\* LockFree with the mutex never contended: RunFunc without its lock_guard.
LockFree_always(m) == TRUE

\* std::lock_guard<std::mutex> lock(mtx_) can be taken: the mutex is free.
LockFree(m) == m = NoThread

\* RunFuncRoute reallocating whenever the size differs, not only when the
\* request is larger.
RunFuncRoute_exactfit(len, ws, r) ==
  IF r # len
  THEN IF ws # Null THEN "sync" ELSE "alloc"
  ELSE "func"

\* RunFuncRoute with the old buffer freed without the stream synchronized.
RunFuncRoute_nosync(len, ws, r) ==
  IF r > len
  THEN IF r <= len THEN "func"
       ELSE IF ws # Null THEN "free" ELSE "alloc"
  ELSE "func"

\* RunFuncRoute synchronizing the stream on every growth, the first included.
RunFuncRoute_syncfirst(len, ws, r) ==
  IF r > len
  THEN IF r <= len THEN "func" ELSE "sync"
  ELSE "func"

\* The route of RunFunc from its size check through the entry of
\* ReallocateWorkspace: "func" (call cudnn_func on the buffer as it is),
\* "sync" (a buffer exists: synchronize, free, allocate) or "alloc".
RunFuncRoute(len, ws, r) ==
  IF r > len
  THEN IF r <= len THEN "func"
       ELSE IF ws # Null THEN "sync" ELSE "alloc"
  ELSE "func"

\* The lock_guard's release, on return and on a throw alike.
Unlock(t) == IF mtx_ = t THEN NoThread ELSE mtx_

\* memory::Free(place_, a)
FreeAddr(a) ==
  /\ heap' = [b \in DOMAIN heap \ {a} |-> heap[b]]
  /\ freed' = freed \cup {a}
  /\ double_freed' = IF a \in DOMAIN heap THEN double_freed
                     ELSE double_freed \cup {a}

\* RunFunc(cudnn_func, required_workspace_len): take the mutex, compare the
\* size with workspace_len_.
RunFunc_Enter(t) ==
  /\ ctx_state = "Ready"
  /\ has_cudnn
  /\ pc[t] = "idle"
  /\ LockFree(mtx_)
  /\ \E r \in 1..MaxLen :
       LET to == RunFuncRoute(workspace_len_, workspace_, r)
       IN /\ req' = [req EXCEPT ![t] = r]
          /\ pc' = [pc EXCEPT ![t] = to]
          /\ op_buf' = [op_buf EXCEPT ![t] = IF to = "func" THEN workspace_ ELSE Null]
  /\ mtx_' = t
  /\ synced' = [synced EXCEPT ![t] = FALSE]
  /\ UNCHANGED <<threw, has_cudnn, ctx_state, dtor_i, members_left, td_log, workspace_,
                 workspace_len_, heap, freed, double_freed, stream_q, cb_pending,
                 max_ok_req>>
  /\ UNCHANGED <<pool_vars, blob_vars, wait_vars, ctor_vars, eigen_vars>>

\* A throw out of RunFunc: the lock_guard releases the mutex.
Throw(t) ==
  /\ pc' = [pc EXCEPT ![t] = "idle"]
  /\ req' = [req EXCEPT ![t] = 0]
  /\ op_buf' = [op_buf EXCEPT ![t] = Null]
  /\ mtx_' = Unlock(t)
  /\ threw' = TRUE

\* PADDLE_ENFORCE(cudaStreamSynchronize(*stream_)) returns once the stream
\* holds no pending work.
Realloc_Sync(t) ==
  /\ pc[t] = "sync"
  /\ stream_q = <<>>
  /\ pc' = [pc EXCEPT ![t] = "free"]
  /\ synced' = [synced EXCEPT ![t] = TRUE]
  /\ UNCHANGED <<threw, has_cudnn, ctx_state, dtor_i, members_left, td_log, workspace_,
                 workspace_len_, mtx_, req, op_buf, heap, freed, double_freed,
                 stream_q, cb_pending, max_ok_req>>
  /\ UNCHANGED <<pool_vars, blob_vars, wait_vars, ctor_vars, eigen_vars>>

\* cudaStreamSynchronize reports an error: PADDLE_ENFORCE throws.
Realloc_SyncFail(t) ==
  /\ pc[t] = "sync"
  /\ Throw(t)
  /\ UNCHANGED <<has_cudnn, ctx_state, dtor_i, members_left, td_log, workspace_,
                 workspace_len_, synced, heap, freed, double_freed, stream_q,
                 cb_pending, max_ok_req>>
  /\ UNCHANGED <<pool_vars, blob_vars, wait_vars, ctor_vars, eigen_vars>>

\* paddle::memory::Free(place_, workspace_)
Realloc_Free(t) ==
  /\ pc[t] = "free"
  /\ FreeAddr(workspace_)
  /\ pc' = [pc EXCEPT ![t] = "alloc"]
  /\ UNCHANGED <<threw, has_cudnn, ctx_state, dtor_i, members_left, td_log, workspace_,
                 workspace_len_, mtx_, req, op_buf, synced, stream_q, cb_pending,
                 max_ok_req>>
  /\ UNCHANGED <<pool_vars, blob_vars, wait_vars, ctor_vars, eigen_vars>>

\* The size handed to the allocator with one spare byte.
AllocSize_padded(required) == required + 1

\* memory::Alloc(place_, required_workspace_len): the size asked of the
\* allocator.
AllocSize(required) == required

\* workspace_ = memory::Alloc(place_, required_workspace_len);
\* workspace_len_ = required_workspace_len; then cudnn_func(workspace_).
Realloc_Alloc(t) ==
  /\ pc[t] = "alloc"
  /\ heap' = heap @@ (FreshAddr :> AllocSize(req[t]))
  /\ workspace_' = FreshAddr
  /\ workspace_len_' = req[t]
  /\ pc' = [pc EXCEPT ![t] = "func"]
  /\ op_buf' = [op_buf EXCEPT ![t] = FreshAddr]
  /\ UNCHANGED <<threw, has_cudnn, ctx_state, dtor_i, members_left, td_log, mtx_, req,
                 synced, freed, double_freed, stream_q, cb_pending, max_ok_req>>
  /\ UNCHANGED <<pool_vars, blob_vars, wait_vars, ctor_vars, eigen_vars>>

\* memory::Alloc fails (out of memory): the call ends in the error, with
\* workspace_ and workspace_len_ as they were.
Realloc_AllocFail(t) ==
  /\ pc[t] = "alloc"
  /\ Throw(t)
  /\ UNCHANGED <<has_cudnn, ctx_state, dtor_i, members_left, td_log, workspace_,
                 workspace_len_, synced, heap, freed, double_freed, stream_q,
                 cb_pending, max_ok_req>>
  /\ UNCHANGED <<pool_vars, blob_vars, wait_vars, ctor_vars, eigen_vars>>

\* cudnn_func, running, enqueues work on the stream that uses the buffer it
\* was given, and does not wait for it.
Op_Enqueue(t) ==
  /\ pc[t] = "func"
  /\ Len(stream_q) < MaxQueue
  /\ stream_q' = Append(stream_q, op_buf[t])
  /\ pc' = [pc EXCEPT ![t] = "func_enq"]
  /\ UNCHANGED <<threw, has_cudnn, ctx_state, dtor_i, members_left, td_log, workspace_,
                 workspace_len_, mtx_, req, op_buf, synced, heap, freed,
                 double_freed, cb_pending, max_ok_req>>
  /\ UNCHANGED <<pool_vars, blob_vars, wait_vars, ctor_vars, eigen_vars>>

\* cudnn_func returns and RunFunc with it: the mutex is released.
RunFunc_Return(t) ==
  /\ pc[t] \in {"func", "func_enq"}
  /\ pc' = [pc EXCEPT ![t] = "idle"]
  /\ max_ok_req' = Max(max_ok_req, req[t])
  /\ req' = [req EXCEPT ![t] = 0]
  /\ op_buf' = [op_buf EXCEPT ![t] = Null]
  /\ mtx_' = Unlock(t)
  /\ UNCHANGED <<threw, has_cudnn, ctx_state, dtor_i, members_left, td_log, workspace_,
                 workspace_len_, synced, heap, freed, double_freed, stream_q,
                 cb_pending>>
  /\ UNCHANGED <<pool_vars, blob_vars, wait_vars, ctor_vars, eigen_vars>>

\* ------------------------------------------------------------- stream, callbacks
\* The oldest pending work item left the stream: of the work a Wait call found
\* pending when it began, one item fewer is pending.
OneCompleted(wb) == [t \in Threads |-> IF wb[t] > 0 THEN wb[t] - 1 ELSE 0]

\* The device completes the oldest pending work item of the stream.
DeviceComplete ==
  /\ ctx_state \in {"Ready", "Dtor"}
  /\ stream_q # <<>>
  /\ stream_q' = Tail(stream_q)
  /\ w_before' = OneCompleted(w_before)
  /\ UNCHANGED <<threw, has_cudnn, ctx_state, dtor_i, members_left, td_log, workspace_,
                 workspace_len_, mtx_, pc, req, op_buf, synced, heap, freed,
                 double_freed, cb_pending, max_ok_req>>
  /\ UNCHANGED <<wpc, w_i, last_error>>
  /\ UNCHANGED <<pool_vars, blob_vars, ctor_vars, eigen_vars>>

\* The oldest pending work item fails on the device: it leaves the stream and
\* the device has an error to report.
DeviceFault ==
  /\ ctx_state = "Ready"
  /\ stream_q # <<>>
  /\ stream_q' = Tail(stream_q)
  /\ w_before' = OneCompleted(w_before)
  /\ last_error' = TRUE
  /\ UNCHANGED <<threw, has_cudnn, ctx_state, dtor_i, members_left, td_log, workspace_,
                 workspace_len_, mtx_, pc, req, op_buf, synced, heap, freed,
                 double_freed, cb_pending, max_ok_req>>
  /\ UNCHANGED <<wpc, w_i>>
  /\ UNCHANGED <<pool_vars, blob_vars, ctor_vars, eigen_vars>>

\* A kernel launched on stream() by a caller outside RunFunc: it uses none of
\* the workspace.
EnqueueOther ==
  /\ ctx_state = "Ready"
  /\ Len(stream_q) < MaxQueue
  /\ stream_q' = Append(stream_q, Null)
  /\ UNCHANGED <<threw, has_cudnn, ctx_state, dtor_i, members_left, td_log, workspace_,
                 workspace_len_, mtx_, pc, req, op_buf, synced, heap, freed,
                 double_freed, cb_pending, max_ok_req>>
  /\ UNCHANGED <<pool_vars, blob_vars, wait_vars, ctor_vars, eigen_vars>>

\* A callback is handed to the callback queue.
AddStreamCallback ==
  /\ ctx_state = "Ready"
  /\ cb_pending < MaxCallbacks
  /\ cb_pending' = cb_pending + 1
  /\ UNCHANGED <<threw, has_cudnn, ctx_state, dtor_i, members_left, td_log, workspace_,
                 workspace_len_, mtx_, pc, req, op_buf, synced, heap, freed,
                 double_freed, stream_q, max_ok_req>>
  /\ UNCHANGED <<pool_vars, blob_vars, wait_vars, ctor_vars, eigen_vars>>

\* A pending callback runs.
CallbackRun ==
  /\ ctx_state \in {"Ready", "Dtor"}
  /\ cb_pending > 0
  /\ cb_pending' = cb_pending - 1
  /\ UNCHANGED <<threw, has_cudnn, ctx_state, dtor_i, members_left, td_log, workspace_,
                 workspace_len_, mtx_, pc, req, op_buf, synced, heap, freed,
                 double_freed, stream_q, max_ok_req>>
  /\ UNCHANGED <<pool_vars, blob_vars, wait_vars, ctor_vars, eigen_vars>>

\* ------------------------------------------------------------- Wait
WaitSteps_nosync == <<"cudaGetLastError">>

\* CUDADeviceContext::Wait: the statements of its body, each under
\* PADDLE_ENFORCE.
WaitSteps == <<"cudaStreamSynchronize", "cudaGetLastError">>

\* A thread calls Wait() on the context; the call finds Len(stream_q) work
\* items pending on the stream.
Wait_Call(t) ==
  /\ ctx_state = "Ready"
  /\ wpc[t] # "call"
  /\ wpc' = [wpc EXCEPT ![t] = "call"]
  /\ w_i' = [w_i EXCEPT ![t] = 1]
  /\ w_before' = [w_before EXCEPT ![t] = Len(stream_q)]
  /\ UNCHANGED last_error
  /\ UNCHANGED <<pool_vars, cuda_vars, blob_vars, ctor_vars, eigen_vars>>

\* The statement's call returns cudaSuccess: cudaStreamSynchronize once the
\* work enqueued before it has left the stream and the device has no error to
\* report, cudaGetLastError when there is no error to report. After the last
\* statement Wait returns.
Wait_Step(t) ==
  /\ wpc[t] = "call"
  /\ ~last_error
  /\ WaitSteps[w_i[t]] = "cudaStreamSynchronize" => w_before[t] = 0
  /\ IF w_i[t] < Len(WaitSteps)
     THEN /\ w_i' = [w_i EXCEPT ![t] = w_i[t] + 1]
          /\ UNCHANGED wpc
     ELSE /\ wpc' = [wpc EXCEPT ![t] = "returned"]
          /\ w_i' = [w_i EXCEPT ![t] = 1]
  /\ UNCHANGED <<w_before, last_error>>
  /\ UNCHANGED <<pool_vars, cuda_vars, blob_vars, ctor_vars, eigen_vars>>

\* The statement's call returns an error and PADDLE_ENFORCE throws:
\* cudaStreamSynchronize fails by itself or reports the device's error,
\* cudaGetLastError reports the device's error and clears it.
Wait_StepFail(t) ==
  /\ wpc[t] = "call"
  /\ WaitSteps[w_i[t]] = "cudaGetLastError" => last_error
  /\ last_error' = (WaitSteps[w_i[t]] # "cudaGetLastError")
  /\ wpc' = [wpc EXCEPT ![t] = "fatal"]
  /\ w_i' = [w_i EXCEPT ![t] = 1]
  /\ UNCHANGED w_before
  /\ UNCHANGED <<pool_vars, cuda_vars, blob_vars, ctor_vars, eigen_vars>>

\* ------------------------------------------------------------- teardown
\* ~CUDADeviceContext with the linear-algebra handle destroyed first.
DtorSteps_handlefirst ==
  << "SetDeviceId", "cublasDestroy", "cudaStreamSynchronize", "cudaGetLastError",
     "WaitStreamCallback", "eigen_stream_.reset", "eigen_device_.reset",
     "cudaStreamDestroy" >>

\* The statements of ~CUDADeviceContext's body, in order; Wait() is its two
\* statements, cudaStreamSynchronize and cudaGetLastError.
DtorSteps ==
  << "SetDeviceId", "cudaStreamSynchronize", "cudaGetLastError",
     "WaitStreamCallback", "cublasDestroy", "eigen_stream_.reset",
     "eigen_device_.reset", "cudaStreamDestroy" >>

\* The statements under PADDLE_ENFORCE: each may throw.
Enforced ==
  {"cudaStreamSynchronize", "cudaGetLastError", "cublasDestroy", "cudaStreamDestroy"}

\* The owning members the destructor's body leaves alone: they are destroyed
\* after the body has run.
OwningMembers ==
  IF has_cudnn THEN {"cudnn_holder_", "callback_manager_"} ELSE {"callback_manager_"}

\* The destructor runs when no caller is using the context.
Dtor_Step ==
  /\ ctx_state \in {"Ready", "Dtor"}
  /\ ctx_state = "Ready" => \A t \in Threads : pc[t] = "idle"
  /\ dtor_i <= Len(DtorSteps)
  /\ LET s == DtorSteps[dtor_i]
     IN /\ s = "cudaStreamSynchronize" => stream_q = <<>>
        /\ s = "WaitStreamCallback" => cb_pending = 0
        /\ td_log' = Append(td_log, s)
  /\ dtor_i' = dtor_i + 1
  /\ ctx_state' = IF dtor_i = Len(DtorSteps) THEN "Members" ELSE "Dtor"
  /\ members_left' = IF dtor_i = Len(DtorSteps) THEN OwningMembers ELSE members_left
  /\ UNCHANGED <<threw, has_cudnn, workspace_, workspace_len_, mtx_, pc, req, op_buf,
                 synced, heap, freed, double_freed, stream_q, cb_pending, max_ok_req>>
  /\ UNCHANGED <<pool_vars, blob_vars, wait_vars, ctor_vars, eigen_vars>>

\* A PADDLE_ENFORCE of the destructor throws: an exception leaving a
\* destructor ends the process.
Dtor_StepFail ==
  /\ ctx_state = "Dtor"
  /\ dtor_i <= Len(DtorSteps)
  /\ DtorSteps[dtor_i] \in Enforced
  /\ ctx_state' = "Terminated"
  /\ UNCHANGED <<threw, has_cudnn, dtor_i, members_left, td_log, workspace_,
                 workspace_len_, mtx_, pc, req, op_buf, synced, heap, freed,
                 double_freed, stream_q, cb_pending, max_ok_req>>
  /\ UNCHANGED <<pool_vars, blob_vars, wait_vars, ctor_vars, eigen_vars>>

AfterMember(m) ==
  /\ members_left' = members_left \ {m}
  /\ ctx_state' = IF members_left = {m} THEN "Destroyed" ELSE ctx_state

\* ~CudnnHolder: cudnnDestroy, then Free of the workspace if there is one.
Dtor_CudnnHolder ==
  /\ ctx_state = "Members"
  /\ "cudnn_holder_" \in members_left
  /\ AfterMember("cudnn_holder_")
  /\ IF workspace_ # Null
     THEN /\ td_log' = td_log \o << "cudnnDestroy", "Free(workspace_)" >>
          /\ FreeAddr(workspace_)
     ELSE /\ td_log' = Append(td_log, "cudnnDestroy")
          /\ UNCHANGED <<heap, freed, double_freed>>
  /\ UNCHANGED <<threw, has_cudnn, dtor_i, workspace_, workspace_len_, mtx_, pc, req,
                 op_buf, synced, stream_q, cb_pending, max_ok_req>>
  /\ UNCHANGED <<pool_vars, blob_vars, wait_vars, ctor_vars, eigen_vars>>

\* ~CudnnHolder's PADDLE_ENFORCE(cudnnDestroy) throws.
Dtor_CudnnHolderFail ==
  /\ ctx_state = "Members"
  /\ "cudnn_holder_" \in members_left
  /\ ctx_state' = "Terminated"
  /\ UNCHANGED <<threw, has_cudnn, dtor_i, members_left, td_log, workspace_,
                 workspace_len_, mtx_, pc, req, op_buf, synced, heap, freed,
                 double_freed, stream_q, cb_pending, max_ok_req>>
  /\ UNCHANGED <<pool_vars, blob_vars, wait_vars, ctor_vars, eigen_vars>>

\* The callback queue's owner, callback_manager_, is destroyed.
Dtor_CallbackManager ==
  /\ ctx_state = "Members"
  /\ "callback_manager_" \in members_left
  /\ AfterMember("callback_manager_")
  /\ td_log' = Append(td_log, "~StreamCallbackManager")
  /\ UNCHANGED <<threw, has_cudnn, dtor_i, workspace_, workspace_len_, mtx_, pc, req,
                 op_buf, synced, heap, freed, double_freed, stream_q, cb_pending,
                 max_ok_req>>
  /\ UNCHANGED <<pool_vars, blob_vars, wait_vars, ctor_vars, eigen_vars>>

InitCuda ==
  /\ build_cuda = TRUE
  /\ build_mkldnn = FALSE
  /\ InitPoolVars
  /\ has_cudnn \in BOOLEAN
  /\ InitCudaVars
  /\ InitBlobVars
  /\ InitWaitVars
  /\ InitCtorVars
  /\ InitEigenVars

NextCuda ==
  \/ \E t \in Threads : RunFunc_Enter(t)
  \/ \E t \in Threads : Realloc_Sync(t)
  \/ \E t \in Threads : Realloc_SyncFail(t)
  \/ \E t \in Threads : Realloc_Free(t)
  \/ \E t \in Threads : Realloc_Alloc(t)
  \/ \E t \in Threads : Realloc_AllocFail(t)
  \/ \E t \in Threads : Op_Enqueue(t)
  \/ \E t \in Threads : RunFunc_Return(t)
  \/ DeviceComplete
  \/ EnqueueOther
  \/ AddStreamCallback
  \/ CallbackRun
  \/ Dtor_Step
  \/ Dtor_StepFail
  \/ Dtor_CudnnHolder
  \/ Dtor_CudnnHolderFail
  \/ Dtor_CallbackManager

SpecCuda == InitCuda /\ [][NextCuda]_vars

\* A context in use by callers of Wait while kernels are launched on its
\* stream and the device works through them.
InitWait == InitCuda

NextWait ==
  \/ \E t \in Threads : Wait_Call(t)
  \/ \E t \in Threads : Wait_Step(t)
  \/ \E t \in Threads : Wait_StepFail(t)
  \/ EnqueueOther
  \/ DeviceComplete
  \/ DeviceFault

SpecWait == InitWait /\ [][NextWait]_vars

\* ------------------------------------------------------------- construction
ComputeCapabilities == {35, 70}

Versions == {9000, 9020}

\* The constructor's body with cublasSetStream ahead of cudaStreamCreate.
CtorSteps_bindfirst(cudnn) ==
  <<"SetDeviceId", "GetCUDAComputeCapability", "GetCUDAMultiProcessors",
    "GetCUDAMaxThreadsPerMultiProcessor", "cublasCreate", "cublasSetStream",
    "cudaStreamCreate", "EigenCudaStreamDevice", "Reinitialize",
    "Eigen::GpuDevice">>
  \o (IF cudnn THEN <<"cudnnCreate", "cudnnSetStream">> ELSE <<>>)
  \o <<"GetCUDADriverVersion", "GetCUDARuntimeVersion", "LOG",
       "StreamCallbackManager">>

\* CUDADeviceContext::CUDADeviceContext: the statements of its body in order;
\* new CudnnHolder, run when HasCUDNN(), is cudnnCreate then cudnnSetStream.
CtorSteps(cudnn) ==
  <<"SetDeviceId", "GetCUDAComputeCapability", "GetCUDAMultiProcessors",
    "GetCUDAMaxThreadsPerMultiProcessor", "cudaStreamCreate",
    "EigenCudaStreamDevice", "Reinitialize", "Eigen::GpuDevice",
    "cublasCreate", "cublasSetStream">>
  \o (IF cudnn THEN <<"cudnnCreate", "cudnnSetStream">> ELSE <<>>)
  \o <<"GetCUDADriverVersion", "GetCUDARuntimeVersion", "LOG",
       "StreamCallbackManager">>

\* The statements under PADDLE_ENFORCE.
CtorEnforced ==
  {"cudaStreamCreate", "cublasCreate", "cublasSetStream", "cudnnCreate",
   "cudnnSetStream"}

\* The values a metadata query can return.
QueryValues(step) ==
  IF step = "GetCUDAComputeCapability" THEN ComputeCapabilities
  ELSE IF step \in {"GetCUDADriverVersion", "GetCUDARuntimeVersion"}
       THEN Versions
       ELSE {0}

\* The assignment of a query's result to its field.
Cache(meta, step, v) ==
  IF step = "GetCUDAComputeCapability"
  THEN [meta EXCEPT !.compute_capability_ = v]
  ELSE IF step = "GetCUDAMultiProcessors"
  THEN [meta EXCEPT !.multi_process_ = 1]
  ELSE IF step = "GetCUDAMaxThreadsPerMultiProcessor"
  THEN [meta EXCEPT !.max_threads_per_mp_ = 1]
  ELSE IF step = "GetCUDADriverVersion"
  THEN [meta EXCEPT !.driver_version_ = v]
  ELSE IF step = "GetCUDARuntimeVersion"
  THEN [meta EXCEPT !.runtime_version_ = v]
  ELSE meta

\* The line LOG(INFO) prints: device, capability, driver major.minor, runtime
\* major.minor.
LogLine(device, meta) ==
  <<device, meta.compute_capability_,
    meta.driver_version_ \div 1000, (meta.driver_version_ % 100) \div 10,
    meta.runtime_version_ \div 1000, (meta.runtime_version_ % 100) \div 10>>

\* The constructor is entered for CUDAPlace(d).
Ctor_Begin ==
  /\ ct_state = "Uninitialized"
  /\ \E d \in Devices : ct_device' = d
  /\ ct_state' = "Ctor"
  /\ UNCHANGED <<ct_i, ct_log, ct_meta, ct_line>>
  /\ UNCHANGED <<pool_vars, cuda_vars, blob_vars, wait_vars, eigen_vars>>

\* The next statement of the body runs to its end; after the last one the
\* context is Ready.
Ctor_Step ==
  /\ ct_state = "Ctor"
  /\ LET steps == CtorSteps(has_cudnn)
         step == steps[ct_i]
     IN /\ \E v \in QueryValues(step) : ct_meta' = Cache(ct_meta, step, v)
        /\ ct_log' = IF step = "LOG" THEN ct_log ELSE Append(ct_log, step)
        /\ ct_line' = IF step = "LOG" THEN LogLine(ct_device, ct_meta)
                      ELSE ct_line
        /\ IF ct_i < Len(steps)
           THEN ct_i' = ct_i + 1 /\ UNCHANGED ct_state
           ELSE ct_i' = 1 /\ ct_state' = "Ready"
  /\ UNCHANGED ct_device
  /\ UNCHANGED <<pool_vars, cuda_vars, blob_vars, wait_vars, eigen_vars>>

\* The next statement's call returns an error and PADDLE_ENFORCE throws out of
\* the constructor.
Ctor_StepFail ==
  /\ ct_state = "Ctor"
  /\ CtorSteps(has_cudnn)[ct_i] \in CtorEnforced
  /\ ct_state' = "Failed"
  /\ UNCHANGED <<ct_device, ct_i, ct_log, ct_meta, ct_line>>
  /\ UNCHANGED <<pool_vars, cuda_vars, blob_vars, wait_vars, eigen_vars>>

InitCtor == InitCuda

NextCtor == Ctor_Begin \/ Ctor_Step \/ Ctor_StepFail

SpecCtor == InitCtor /\ [][NextCtor]_vars

\* ------------------------------------------------------------- elementwise adapter
EigenOthers == <<pool_vars, cuda_vars, blob_vars, wait_vars, ctor_vars>>

\* A thread calls scratchpad() or semaphore() on the adapter.
Eigen_Call(t) ==
  /\ epc[t] = "idle"
  /\ \E op \in {"scratchpad", "semaphore"} :
       /\ e_op' = [e_op EXCEPT ![t] = op]
       /\ epc' = [epc EXCEPT ![t] =
                    IF op = "scratchpad" THEN "sp_check" ELSE "sem_check"]
  /\ UNCHANGED <<scratch_, semaphore_, sp_allocs, sp_returned, sem_returned>>
  /\ UNCHANGED EigenOthers

\* semaphore(): if (semaphore_ == NULL), the body begins by calling
\* scratchpad(); otherwise go to the return.
Sem_Check(t) ==
  /\ epc[t] = "sem_check"
  /\ epc' = [epc EXCEPT ![t] =
               IF semaphore_ = NoSemaphore THEN "sp_check" ELSE "sem_ret"]
  /\ UNCHANGED <<scratch_, semaphore_, e_op, sp_allocs, sp_returned,
                 sem_returned>>
  /\ UNCHANGED EigenOthers

\* scratchpad(): if (scratch_ == NULL)
Sp_Check(t) ==
  /\ epc[t] = "sp_check"
  /\ epc' = [epc EXCEPT ![t] = IF scratch_ = Null THEN "sp_alloc" ELSE "sp_ret"]
  /\ UNCHANGED <<scratch_, semaphore_, e_op, sp_allocs, sp_returned,
                 sem_returned>>
  /\ UNCHANGED EigenOthers

\* scratch_ = allocate(kCudaScratchSize + sizeof(unsigned int)): a buffer no
\* earlier call obtained.
Sp_Alloc(t) ==
  /\ epc[t] = "sp_alloc"
  /\ scratch_' = sp_allocs + 1
  /\ sp_allocs' = sp_allocs + 1
  /\ epc' = [epc EXCEPT ![t] = "sp_ret"]
  /\ UNCHANGED <<semaphore_, e_op, sp_returned, sem_returned>>
  /\ UNCHANGED EigenOthers

\* allocate fails (out of memory): the call ends in the error, scratch_ stays
\* NULL or what another caller made it.
Sp_AllocFail(t) ==
  /\ epc[t] = "sp_alloc"
  /\ epc' = [epc EXCEPT ![t] = "idle"]
  /\ e_op' = [e_op EXCEPT ![t] = "none"]
  /\ UNCHANGED <<scratch_, semaphore_, sp_allocs, sp_returned, sem_returned>>
  /\ UNCHANGED EigenOthers

\* return scratch_: to the caller of scratchpad(), or into semaphore(), which
\* assigns semaphore_ = scratch + kCudaScratchSize.
Sp_Return(t) ==
  /\ epc[t] = "sp_ret"
  /\ IF e_op[t] = "scratchpad"
     THEN /\ sp_returned' = sp_returned \cup {scratch_}
          /\ epc' = [epc EXCEPT ![t] = "idle"]
          /\ e_op' = [e_op EXCEPT ![t] = "none"]
          /\ UNCHANGED semaphore_
     ELSE /\ semaphore_' = SemaphoreOf(scratch_)
          /\ epc' = [epc EXCEPT ![t] = "sem_memset"]
          /\ UNCHANGED <<sp_returned, e_op>>
  /\ UNCHANGED <<scratch_, sp_allocs, sem_returned>>
  /\ UNCHANGED EigenOthers

\* PADDLE_ENFORCE(cudaMemsetAsync(semaphore_, 0, sizeof(unsigned int), ...))
Sem_Memset(t) ==
  /\ epc[t] = "sem_memset"
  /\ epc' = [epc EXCEPT ![t] = "sem_ret"]
  /\ UNCHANGED <<scratch_, semaphore_, e_op, sp_allocs, sp_returned,
                 sem_returned>>
  /\ UNCHANGED EigenOthers

\* cudaMemsetAsync reports an error: PADDLE_ENFORCE throws, semaphore_ stays
\* assigned.
Sem_MemsetFail(t) ==
  /\ epc[t] = "sem_memset"
  /\ epc' = [epc EXCEPT ![t] = "idle"]
  /\ e_op' = [e_op EXCEPT ![t] = "none"]
  /\ UNCHANGED <<scratch_, semaphore_, sp_allocs, sp_returned, sem_returned>>
  /\ UNCHANGED EigenOthers

\* return semaphore_
Sem_Return(t) ==
  /\ epc[t] = "sem_ret"
  /\ sem_returned' = sem_returned \cup {semaphore_}
  /\ epc' = [epc EXCEPT ![t] = "idle"]
  /\ e_op' = [e_op EXCEPT ![t] = "none"]
  /\ UNCHANGED <<scratch_, semaphore_, sp_allocs, sp_returned>>
  /\ UNCHANGED EigenOthers

InitEigen == InitCuda

NextEigen ==
  \/ \E t \in Threads : Eigen_Call(t)
  \/ \E t \in Threads : Sem_Check(t)
  \/ \E t \in Threads : Sp_Check(t)
  \/ \E t \in Threads : Sp_Alloc(t)
  \/ \E t \in Threads : Sp_AllocFail(t)
  \/ \E t \in Threads : Sp_Return(t)
  \/ \E t \in Threads : Sem_Memset(t)
  \/ \E t \in Threads : Sem_MemsetFail(t)
  \/ \E t \in Threads : Sem_Return(t)

SpecEigen == InitEigen /\ [][NextEigen]_vars

\* ------------------------------------------------------------- accelerator claims
\* The thread's cudnn_func is running.
OpPcs == {"func", "func_enq"}

InRunFunc(t) == pc[t] # "idle"

\* The buffers the stream's pending work uses.
PendingBufs == {stream_q[i] : i \in DOMAIN stream_q} \ {Null}

\* Position of the first occurrence of call e in the teardown log (0: none).
Pos(e) ==
  IF \E i \in DOMAIN td_log : td_log[i] = e
  THEN CHOOSE i \in DOMAIN td_log :
         td_log[i] = e /\ \A j \in 1..(i - 1) : td_log[j] # e
  ELSE 0

\* C4: the workspace capacity never decreases: workspace_len_ only grows,
\* every buffer allocated is larger than the capacity it replaces, and a
\* cudnn_func runs with a capacity (and, the buffer being allocated, a buffer)
\* at least as large as every size requested by a call that returned before.
C4_CapacityMonotone ==
  /\ [][ /\ workspace_len_' >= workspace_len_
         /\ \A a \in DOMAIN heap' \ DOMAIN heap :
              /\ heap'[a] > workspace_len_
              /\ heap'[a] = workspace_len_' ]_vars
  /\ [](\A t \in Threads : pc[t] \in OpPcs =>
          /\ workspace_len_ >= max_ok_req
          /\ workspace_len_ >= req[t]
          /\ op_buf[t] \in DOMAIN heap => heap[op_buf[t]] >= max_ok_req)

\* A call requesting less than an earlier, returned call runs its cudnn_func
\* on the buffer that earlier growth allocated.
C4_Witness ==
  \E t \in Threads :
    /\ pc[t] \in OpPcs
    /\ req[t] < max_ok_req
    /\ max_ok_req = workspace_len_
    /\ freed # {}
    /\ op_buf[t] \in DOMAIN heap

\* C5: every Free of the old workspace while RunFunc grows it comes after a
\* completed cudaStreamSynchronize of the same call, with no pending stream
\* work using the buffer freed.
C5_SyncBeforeFree ==
  [][ /\ \A t \in Threads : (pc[t] = "free" /\ pc'[t] # "free") =>
           /\ synced[t]
           /\ workspace_ \notin PendingBufs
      /\ (ctx_state = "Ready" /\ DOMAIN heap' # DOMAIN heap
          /\ DOMAIN heap' \subseteq DOMAIN heap) =>
           \E t \in Threads : pc[t] = "free" /\ synced[t] ]_vars

\* Growth has synchronized and freed the old buffer, and is about to allocate.
C5_Witness ==
  \E t \in Threads :
    /\ pc[t] = "alloc"
    /\ synced[t]
    /\ workspace_ \in freed
    /\ double_freed = {}

\* C6: at most one thread is inside RunFunc's locked region (size check,
\* reallocation, cudnn_func) at a time, it holds mtx_, and while a cudnn_func
\* runs the buffer it was given is neither freed nor replaced.
C6_OneRunFuncAtATime ==
  /\ [](/\ Cardinality({t \in Threads : InRunFunc(t)}) <= 1
        /\ \A t \in Threads : InRunFunc(t) => mtx_ = t)
  /\ [][ \A t \in Threads : (pc[t] \in OpPcs /\ pc'[t] \in OpPcs) =>
           /\ workspace_' = workspace_
           /\ workspace_len_' = workspace_len_
           /\ heap' = heap
           /\ freed' = freed
           /\ op_buf[t] = workspace_
           /\ op_buf'[t] = op_buf[t] ]_vars

\* A cudnn_func that has enqueued work on a grown buffer, holding the mutex.
C6_Witness ==
  \E t \in Threads :
    /\ pc[t] = "func_enq"
    /\ mtx_ = t
    /\ req[t] = workspace_len_
    /\ freed # {}

\* C9: in the destructor the stream is synchronized and the callback queue
\* drained before cublasDestroy, and cublasDestroy comes before
\* cudaStreamDestroy.
C9_SyncThenHandleThenStream ==
  /\ Pos("cublasDestroy") > 0 =>
       /\ Pos("cudaStreamSynchronize") \in 1..(Pos("cublasDestroy") - 1)
       /\ Pos("WaitStreamCallback") \in
            (Pos("cudaStreamSynchronize") + 1)..(Pos("cublasDestroy") - 1)
       /\ stream_q = <<>>
       /\ cb_pending = 0
  /\ Pos("cudaStreamDestroy") > 0 =>
       Pos("cublasDestroy") \in 1..(Pos("cudaStreamDestroy") - 1)

\* A context whose workspace was used, torn down to the end.
C9_Witness ==
  /\ ctx_state = "Destroyed"
  /\ Pos("cudaStreamDestroy") > 0
  /\ max_ok_req > 0

\* The teardown calls that destroy or free what was created on or bound to
\* the stream.
StreamBound ==
  {"cublasDestroy", "cudnnDestroy", "Free(workspace_)", "eigen_stream_.reset",
   "eigen_device_.reset", "~StreamCallbackManager"}

\* C10: in teardown nothing bound to the stream (linear-algebra handle,
\* cuDNN handle, workspace buffer, adapter state, callback queue) is
\* destroyed or freed after cudaStreamDestroy.
C10_StreamDestroyedLast ==
  \A i, j \in DOMAIN td_log :
    (td_log[i] = "cudaStreamDestroy" /\ i < j) => td_log[j] \notin StreamBound

\* ------------------------------------------------------------- blob cache
\* set_cur_thread_id(tid), by a thread that is in no cache call.
set_cur_thread_id(t) ==
  /\ bpc[t] = "idle"
  /\ \E tid \in Tids :
       /\ tid # cur_thread_id[t]
       /\ cur_thread_id' = [cur_thread_id EXCEPT ![t] = tid]
  /\ UNCHANGED <<p_blobmap_, p_mutex_, bpc, b_tid, b_name, b_data, last_set,
                 did_overwrite>>
  /\ UNCHANGED <<pool_vars, cuda_vars, wait_vars, ctor_vars, eigen_vars>>

\* SetBlob's tid with the thread's id ignored: every thread shares row 0.
SetBlob_tid_shared(t) == 0

\* int tid = platform::get_cur_thread_id(); in SetBlob
SetBlob_tid(t) == cur_thread_id[t]

\* int tid = platform::get_cur_thread_id(); in GetBlob
GetBlob_tid(t) == cur_thread_id[t]

\* std::lock_guard<std::mutex> lock(*p_mutex_.get()) can be taken.
BlobLockFree(m) == m = NoThread

\* FindOrCreateRow installing a new, empty KeyBlob on every call.
FindOrCreateRow_reset(map, tid) ==
  [i \in DOMAIN map \cup {tid} |-> IF i = tid THEN EmptyRow ELSE map[i]]

\* SetBlob: find the KeyBlob of tid, creating an empty one the first time.
FindOrCreateRow(map, tid) ==
  IF tid \notin DOMAIN map THEN map @@ (tid :> EmptyRow) ELSE map

\* StoreKey keeping the data a name already has.
StoreKey_keepold(row, name, data) ==
  IF name \notin DOMAIN row THEN row @@ (name :> data) ELSE row

\* SetBlob: create the blob of name, or set the data of the existing one.
StoreKey(row, name, data) ==
  IF name \notin DOMAIN row
  THEN row @@ (name :> data)
  ELSE [row EXCEPT ![name] = data]

\* FindRow going through operator[]: a missing KeyBlob is created.
FindRow_index(map, tid) ==
  [found |-> tid \in DOMAIN map, map |-> FindOrCreateRow(map, tid)]

\* GetBlob: pMap->find(tid): whether tid has a KeyBlob, and the map after the
\* lookup.
FindRow(map, tid) == [found |-> tid \in DOMAIN map, map |-> map]

\* GetBlob's two lookups: nullptr when tid has no KeyBlob or the KeyBlob has
\* no blob of name.
Lookup(map, tid, name) ==
  IF tid \notin DOMAIN map THEN NoData
  ELSE IF name \notin DOMAIN map[tid] THEN NoData
  ELSE map[tid][name]

BlobUnlock(t) == IF p_mutex_ = t THEN NoThread ELSE p_mutex_

\* SetBlob(name, data), up to the KeyBlob of the current thread id: read the
\* id, take the mutex, find or create the row.
SetBlob_Row(t) ==
  /\ bpc[t] = "idle"
  /\ BlobLockFree(p_mutex_)
  /\ p_mutex_' = t
  /\ \E n \in BlobNames, d \in BlobData :
       /\ b_name' = [b_name EXCEPT ![t] = n]
       /\ b_data' = [b_data EXCEPT ![t] = d]
  /\ b_tid' = [b_tid EXCEPT ![t] = SetBlob_tid(t)]
  /\ p_blobmap_' = FindOrCreateRow(p_blobmap_, SetBlob_tid(t))
  /\ bpc' = [bpc EXCEPT ![t] = "set_key"]
  /\ UNCHANGED <<cur_thread_id, last_set, did_overwrite>>
  /\ UNCHANGED <<pool_vars, cuda_vars, wait_vars, ctor_vars, eigen_vars>>

\* SetBlob, from the row on: store data under name, return, release the mutex.
SetBlob_Key(t) ==
  /\ bpc[t] = "set_key"
  /\ p_blobmap_' = [p_blobmap_ EXCEPT
                      ![b_tid[t]] = StoreKey(@, b_name[t], b_data[t])]
  /\ last_set' = [last_set EXCEPT ![cur_thread_id[t]][b_name[t]] = b_data[t]]
  /\ did_overwrite' =
       (did_overwrite \/ last_set[cur_thread_id[t]][b_name[t]] \notin {NoData, b_data[t]})
  /\ bpc' = [bpc EXCEPT ![t] = "idle"]
  /\ b_name' = [b_name EXCEPT ![t] = NoName]
  /\ b_data' = [b_data EXCEPT ![t] = NoData]
  /\ b_tid' = [b_tid EXCEPT ![t] = 0]
  /\ p_mutex_' = BlobUnlock(t)
  /\ UNCHANGED cur_thread_id
  /\ UNCHANGED <<pool_vars, cuda_vars, wait_vars, ctor_vars, eigen_vars>>

\* GetBlob(name), up to the KeyBlob of the current thread id: read the id,
\* take the mutex, look the row up; no row: the return value is nullptr.
GetBlob_Row(t) ==
  /\ bpc[t] = "idle"
  /\ BlobLockFree(p_mutex_)
  /\ p_mutex_' = t
  /\ \E n \in BlobNames : b_name' = [b_name EXCEPT ![t] = n]
  /\ b_tid' = [b_tid EXCEPT ![t] = GetBlob_tid(t)]
  /\ LET r == FindRow(p_blobmap_, GetBlob_tid(t))
     IN /\ bpc' = [bpc EXCEPT ![t] = IF r.found THEN "get_key" ELSE "get_ret"]
        /\ p_blobmap_' = r.map
  /\ b_data' = [b_data EXCEPT ![t] = NoData]
  /\ UNCHANGED <<cur_thread_id, last_set, did_overwrite>>
  /\ UNCHANGED <<pool_vars, cuda_vars, wait_vars, ctor_vars, eigen_vars>>

\* GetBlob: find the blob via name in the row; the return value is its data,
\* or nullptr when the row has none.
GetBlob_Key(t) ==
  /\ bpc[t] = "get_key"
  /\ b_data' = [b_data EXCEPT ![t] = Lookup(p_blobmap_, b_tid[t], b_name[t])]
  /\ bpc' = [bpc EXCEPT ![t] = "get_ret"]
  /\ UNCHANGED <<cur_thread_id, p_blobmap_, p_mutex_, b_tid, b_name, last_set,
                 did_overwrite>>
  /\ UNCHANGED <<pool_vars, cuda_vars, wait_vars, ctor_vars, eigen_vars>>

\* GetBlob returns: the lock_guard releases the mutex.
GetBlob_Return(t) ==
  /\ bpc[t] = "get_ret"
  /\ bpc' = [bpc EXCEPT ![t] = "idle"]
  /\ b_name' = [b_name EXCEPT ![t] = NoName]
  /\ b_data' = [b_data EXCEPT ![t] = NoData]
  /\ b_tid' = [b_tid EXCEPT ![t] = 0]
  /\ p_mutex_' = BlobUnlock(t)
  /\ UNCHANGED <<cur_thread_id, p_blobmap_, last_set, did_overwrite>>
  /\ UNCHANGED <<pool_vars, cuda_vars, wait_vars, ctor_vars, eigen_vars>>

InitBlob ==
  /\ build_cuda = FALSE
  /\ build_mkldnn = TRUE
  /\ InitPoolVars
  /\ has_cudnn = FALSE
  /\ InitCudaVars
  /\ InitBlobVars
  /\ InitWaitVars
  /\ InitCtorVars
  /\ InitEigenVars

NextBlob ==
  \/ \E t \in Threads : set_cur_thread_id(t)
  \/ \E t \in Threads : SetBlob_Row(t)
  \/ \E t \in Threads : SetBlob_Key(t)
  \/ \E t \in Threads : GetBlob_Row(t)
  \/ \E t \in Threads : GetBlob_Key(t)
  \/ \E t \in Threads : GetBlob_Return(t)

SpecBlob == InitBlob /\ [][NextBlob]_vars

\* ------------------------------------------------------------- blob cache claims
\* C7: a SetBlob made under thread id A changes the result of GetBlob under
\* no other thread id B, for any name; a GetBlob(name) under an id with no
\* SetBlob(name, _) ever made under it returns nullptr.
C7_ThreadIsolation ==
  /\ [][ \A t \in Threads : bpc'[t] # bpc[t] =>
           \A B \in Tids \ {cur_thread_id[t]}, n \in BlobNames :
             Lookup(p_blobmap_', B, n) = Lookup(p_blobmap_, B, n) ]_vars
  /\ [](\A t \in Threads :
          (bpc[t] = "get_ret" /\ last_set[cur_thread_id[t]][b_name[t]] = NoData)
            => b_data[t] = NoData)

\* GetBlob(name) under one thread id returns nullptr although another thread
\* id holds data for that name.
C7_Witness ==
  \E t \in Threads, A \in Tids :
    /\ bpc[t] = "get_ret"
    /\ b_data[t] = NoData
    /\ A # cur_thread_id[t]
    /\ last_set[A][b_name[t]] # NoData
    /\ \E u \in Threads : cur_thread_id[u] = A

\* C8: GetBlob(name) under thread id t returns the data of the most recent
\* SetBlob(name, _) completed under t; each call runs as the one holder of
\* the context's mutex.
C8_ReadYourWrites ==
  /\ \A t \in Threads : bpc[t] = "get_ret" =>
       b_data[t] = last_set[cur_thread_id[t]][b_name[t]]
  /\ Cardinality({t \in Threads : bpc[t] # "idle"}) <= 1
  /\ \A t \in Threads : bpc[t] # "idle" => p_mutex_ = t

\* GetBlob returns v2 under a thread id whose earlier data was replaced.
C8_Witness ==
  \E t \in Threads :
    /\ bpc[t] = "get_ret"
    /\ b_data[t] = "v2"
    /\ did_overwrite
    /\ \A i \in Tids, n \in BlobNames :
         last_set[i][n] = IF i = cur_thread_id[t] /\ n = b_name[t] THEN "v2" ELSE NoData

\* ------------------------------------------------------------- workspace claims
\* C11: between RunFunc calls on a Ready context, a recorded capacity above 0
\* comes with a recorded buffer that is allocated and at least that large.
C11_WorkspaceValid ==
  (ctx_state = "Ready" /\ mtx_ = NoThread /\ workspace_len_ > 0) =>
    /\ workspace_ \in DOMAIN heap
    /\ heap[workspace_] >= workspace_len_

\* ------------------------------------------------------------- Wait claims
\* C12: a Wait call returns normally only when all the work that was pending on
\* the stream when the call began has left the stream and the device has no
\* error to report; a statement of Wait that runs while the device has an error
\* to report, or whose call fails, ends the call in the fatal outcome.
C12_WaitCompletes ==
  [][\A t \in Threads :
       /\ (wpc[t] = "call" /\ wpc'[t] = "returned") =>
            (w_before[t] = 0 /\ ~last_error /\ ~last_error')
       /\ (wpc[t] = "call" /\ (wpc'[t] # "call" \/ w_i'[t] # w_i[t])
             /\ (last_error \/ last_error')) =>
            wpc'[t] = "fatal"]_vars

\* One call of Wait has returned and another has ended in the fatal outcome,
\* with newer work pending on the stream.
C12_Witness ==
  \E t, u \in Threads :
    /\ wpc[t] = "returned"
    /\ wpc[u] = "fatal"
    /\ w_before[t] = 0
    /\ stream_q # <<>>

\* ------------------------------------------------------------- construction claims
\* Position of a call in the constructor's log (0: not made).
CtPos(e) ==
  IF \E i \in DOMAIN ct_log : ct_log[i] = e
  THEN CHOOSE i \in DOMAIN ct_log : ct_log[i] = e
  ELSE 0

\* The constructor makes the call in this run.
Applicable(e) == e \in {"cudnnCreate", "cudnnSetStream"} => has_cudnn

\* The calls are made stage by stage: when a call of a stage has been made,
\* every applicable call of every earlier stage was made before it.
StagesInOrder(stages) ==
  \A i, j \in DOMAIN stages :
    i < j =>
      \A a \in stages[i], b \in stages[j] :
        (CtPos(b) > 0 /\ Applicable(a)) => (0 < CtPos(a) /\ CtPos(a) < CtPos(b))

\* A Ready context has made every applicable call of the stages.
AllMade(stages) ==
  ct_state = "Ready" =>
    \A i \in DOMAIN stages : \A a \in stages[i] : Applicable(a) => CtPos(a) > 0

AdapterCalls == {"EigenCudaStreamDevice", "Reinitialize", "Eigen::GpuDevice"}

CudnnCalls == {"cudnnCreate", "cudnnSetStream"}

\* C14 as stated: select device, then all five metadata queries, then the
\* stream, the adapter, the cublas handle and its binding, the cuDNN handle,
\* the callback queue.
C14_StatedOrder ==
  StagesInOrder(<<{"SetDeviceId"},
                  {"GetCUDAComputeCapability", "GetCUDAMultiProcessors",
                   "GetCUDAMaxThreadsPerMultiProcessor", "GetCUDADriverVersion",
                   "GetCUDARuntimeVersion"},
                  {"cudaStreamCreate"}, AdapterCalls, {"cublasCreate"},
                  {"cublasSetStream"}, CudnnCalls, {"StreamCallbackManager"}>>)

\* The stages of the constructor with the version queries after the handles.
CodeStages ==
  <<{"SetDeviceId"},
    {"GetCUDAComputeCapability", "GetCUDAMultiProcessors",
     "GetCUDAMaxThreadsPerMultiProcessor"},
    {"cudaStreamCreate"}, AdapterCalls, {"cublasCreate"}, {"cublasSetStream"},
    CudnnCalls, {"GetCUDADriverVersion", "GetCUDARuntimeVersion"},
    {"StreamCallbackManager"}>>

\* C14 (amended): select device, then query compute capability,
\* multiprocessor count and max threads per multiprocessor, then create the
\* stream, build the adapter, create the cublas handle and bind it, create and
\* bind the cuDNN handle if available, then query driver and runtime version,
\* then initialize the callback queue; a Ready context has done them all.
C14_CtorOrder == StagesInOrder(CodeStages) /\ AllMade(CodeStages)

\* A context with cuDNN has been constructed and has printed its log line.
C14_Witness == ct_state = "Ready" /\ has_cudnn /\ ct_line # <<>>

\* ------------------------------------------------------------- workspace claims, continued
\* C15: between calls the capacity is the largest size requested by a call
\* that returned (0 when none did); each growth asks the allocator for exactly
\* the size the growing call requires and records that size; and a cudnn_func
\* runs on the recorded buffer with a capacity of at least its call's size,
\* the buffer being allocated with that capacity when no call threw before.
C15_CapacityIsMax ==
  /\ [](mtx_ = NoThread => workspace_len_ = max_ok_req)
  /\ [][\A a \in DOMAIN heap' \ DOMAIN heap :
          /\ heap'[a] = req[mtx_]
          /\ workspace_len_' = req[mtx_]
          /\ workspace_' = a]_vars
  /\ [](\A t \in Threads : pc[t] \in OpPcs =>
          /\ op_buf[t] = workspace_
          /\ workspace_len_ >= req[t]
          /\ (~threw /\ ctx_state = "Ready") =>
               /\ op_buf[t] \in DOMAIN heap
               /\ heap[op_buf[t]] = workspace_len_)

\* No call threw, a growth to size 3 replaced a smaller buffer, and a call
\* requesting 1 runs its cudnn_func on the buffer of size 3.
C15_Witness ==
  \E t \in Threads :
    /\ ~threw
    /\ pc[t] \in OpPcs
    /\ req[t] = 1
    /\ max_ok_req = 3
    /\ workspace_len_ = 3
    /\ Cardinality(freed) = 1
    /\ op_buf[t] \in DOMAIN heap

\* C16: a call whose size is at most the capacity goes straight to its
\* cudnn_func on the recorded buffer, and from its entry to its return the
\* stream is not synchronized, nothing is freed or allocated, and buffer and
\* capacity stay as they are; a growth with no previous buffer goes straight
\* to the allocation, which synchronizes and frees nothing.
C16_ReuseUntouched ==
  [][\A t \in Threads :
       /\ (pc[t] = "idle" /\ pc'[t] # "idle") =>
            /\ UNCHANGED <<workspace_, workspace_len_, heap, freed>>
            /\ ~synced'[t]
            /\ req'[t] <= workspace_len_ =>
                 (pc'[t] = "func" /\ op_buf'[t] = workspace_)
            /\ (req'[t] > workspace_len_ /\ workspace_ = Null) =>
                 pc'[t] = "alloc"
       /\ (pc[t] \in OpPcs /\ pc'[t] # pc[t]) =>
            /\ UNCHANGED <<workspace_, workspace_len_, heap, freed, synced>>
            /\ pc'[t] \in OpPcs \cup {"idle"}
       /\ (pc[t] = "alloc" /\ pc'[t] # "alloc") =>
            UNCHANGED <<freed, synced>>]_vars

\* The first growth allocated with nothing synchronized or freed, and a later
\* call of a smaller size runs its cudnn_func on that buffer.
C16_Witness ==
  \E t \in Threads :
    /\ pc[t] = "func_enq"
    /\ req[t] < workspace_len_
    /\ max_ok_req = workspace_len_
    /\ op_buf[t] = workspace_
    /\ workspace_ \in DOMAIN heap
    /\ freed = {}
    /\ \A u \in Threads : ~synced[u]

\* ------------------------------------------------------------- blob cache claims, continued
\* C17: a name stored by a completed SetBlob under a thread id stays in that
\* id's row: the row and the entry exist in every later state; no step removes
\* a row or an entry, and the data of an entry changes only in a SetBlob of
\* that name under that thread id, to that call's data.
C17_NeverEvicted ==
  /\ [](\A i \in Tids, n \in BlobNames :
          last_set[i][n] # NoData =>
            (i \in DOMAIN p_blobmap_ /\ n \in DOMAIN p_blobmap_[i]))
  /\ [][\A i \in DOMAIN p_blobmap_ :
          /\ i \in DOMAIN p_blobmap_'
          /\ \A n \in DOMAIN p_blobmap_[i] :
               /\ n \in DOMAIN p_blobmap_'[i]
               /\ p_blobmap_'[i][n] # p_blobmap_[i][n] =>
                    \E t \in Threads :
                      /\ bpc[t] = "set_key"
                      /\ b_tid[t] = i
                      /\ b_name[t] = n
                      /\ p_blobmap_'[i][n] = b_data[t]]_vars

\* Two thread ids have rows, one of them with both names stored, data has
\* been overwritten, and a GetBlob is in progress.
C17_Witness ==
  /\ Cardinality(DOMAIN p_blobmap_) = 2
  /\ \E i \in DOMAIN p_blobmap_ :
       /\ DOMAIN p_blobmap_[i] = BlobNames
       /\ \A n \in BlobNames : last_set[i][n] # NoData
  /\ did_overwrite
  /\ \E t \in Threads : bpc[t] = "get_ret"

\* C18: no step of a GetBlob call changes the two-level map, every GetBlob
\* call reaches its return, and the value it returns is the data stored under
\* (thread id, name), or nullptr when the thread id has no row or the row has
\* no entry of the name.
C18_GetBlobPure ==
  /\ [][\A t \in Threads :
          /\ (bpc'[t] # bpc[t] /\ (bpc[t] \in {"get_key", "get_ret"}
                                   \/ bpc'[t] \in {"get_key", "get_ret"})) =>
               p_blobmap_' = p_blobmap_
          /\ (bpc[t] = "get_key" /\ bpc'[t] # bpc[t]) => bpc'[t] = "get_ret"
          /\ (bpc[t] = "get_ret" /\ bpc'[t] # bpc[t]) => bpc'[t] = "idle"]_vars
  /\ [](\A t \in Threads : bpc[t] = "get_ret" =>
          b_data[t] =
            IF b_tid[t] \in DOMAIN p_blobmap_
               /\ b_name[t] \in DOMAIN p_blobmap_[b_tid[t]]
            THEN p_blobmap_[b_tid[t]][b_name[t]]
            ELSE NoData)

\* A GetBlob under a thread id with no row is about to return nullptr while
\* another thread id has a row, and nothing was created for the caller.
C18_Witness ==
  \E t \in Threads :
    /\ bpc[t] = "get_ret"
    /\ b_tid[t] \notin DOMAIN p_blobmap_
    /\ p_blobmap_ # EmptyBlobMap
    /\ b_data[t] = NoData

\* ------------------------------------------------------------- adapter claims
\* C19: the adapter obtains at most one scratch buffer from the allocator,
\* every scratchpad() call returns the address of that buffer, and every
\* semaphore() call returns the address at the fixed offset past its scratch
\* region.
C19_ScratchOnce ==
  /\ sp_allocs <= 1
  /\ \A a \in sp_returned : a = scratch_
  /\ \A s \in sem_returned : s = SemaphoreOf(scratch_)

\* ------------------------------------------------------------- workspace lifetime
\* C20: no address is passed to Free while it is not allocated (a second
\* time, that is), and after teardown no buffer is left allocated.
C20_FreedExactlyOnce ==
  /\ double_freed = {}
  /\ ctx_state = "Destroyed" => DOMAIN heap = {}

====
